---- MODULE Spec2Model ----
(***************************************************************************)
(* TasksService (src/src/modules/tasks/tasks.service.ts) as a state        *)
(* machine: the task table behind tasksRepository, the 'task-processing'   *)
(* queue behind taskQueue, and the service calls in flight, each advancing *)
(* from one await to the next.                                             *)
(***************************************************************************)
EXTENDS Integers, Sequences, FiniteSets, TLC

VARIABLES
    store,      \* the tasks table: id -> row, or NoTask where no row exists
    nextId,     \* the next primary key the table generates
    calls,      \* the service calls started so far, in the order they started
    jobs,       \* the taskQueue.add invocations so far, in the order they were made
    tick,       \* the number of completed repository.save calls (store-level order)
    last,       \* the last store operation, while no other has touched the store since
    resp,       \* what the last read-only call (findOne, findAll, getStats) returned
    input       \* the (total, limit) pair a totalPages computation is applied to

vars == <<store, nextId, calls, jobs, tick, last, resp, input>>

----------------------------------------------------------------------------
(* Bounds of the model *)

MaxTasks == 3
MaxSeed == 3
MaxCalls == 2
MaxTotal == 120

(* Program constants *)

DefaultPage == 1
DefaultLimit == 10
MaxLimit == 100

----------------------------------------------------------------------------
(* Values *)

Users == {"U1", "U2"}

TaskStatus == {"PENDING", "IN_PROGRESS", "COMPLETED"}
\* updateStatus takes any string (status as any)
AnyStatus == TaskStatus \cup {"OTHER"}
TaskPriority == {"LOW", "MEDIUM", "HIGH"}

DefaultStatus == "PENDING"
DefaultPriority == "MEDIUM"

\* Text is a sequence of characters; a NULL column is the one-element
\* sequence NullText, which no text equals.
NullText == <<"NULL">>
NullDate == 0

NoTask == [id |-> 0]
NoResp == [op |-> "none"]
NoLast == [op |-> "none"]
NoInput == [total |-> 0, limit |-> 0]

Ids == 1..MaxTasks

Has(dto, f) == f \in DOMAIN dto

\* JavaScript truthiness of a string: the empty string is falsy
TruthyText(dto, f) == Has(dto, f) /\ Len(dto[f]) > 0

Max(a, b) == IF a >= b THEN a ELSE b
Min(a, b) == IF a <= b THEN a ELSE b

----------------------------------------------------------------------------
(* The repository *)

Rows == {store[i] : i \in {j \in Ids : store[j] # NoTask}}

\* tasksRepository.findOne({ where: { id, userId } })
FindOneRow_NoOwner(id, userId) ==
    IF store[id] # NoTask THEN store[id] ELSE NoTask

FindOneRow(id, userId) ==
    IF store[id] # NoTask /\ store[id].userId = userId THEN store[id] ELSE NoTask

\* tasksRepository.findOne({ where: { id } })
FindById(id) == store[id]

\* tasksRepository.create(dto) followed by the insert of save(): the columns
\* the dto leaves out take the entity's defaults, the key is generated
NewTask(dto, id) ==
    [id |-> id,
     userId |-> dto.userId,
     title |-> dto.title,
     description |-> IF Has(dto, "description") THEN dto.description ELSE NullText,
     status |-> IF Has(dto, "status") THEN dto.status ELSE DefaultStatus,
     priority |-> IF Has(dto, "priority") THEN dto.priority ELSE DefaultPriority,
     dueDate |-> IF Has(dto, "dueDate") THEN dto.dueDate ELSE NullDate,
     createdAt |-> id]

\* update(): if (updateTaskDto.f) task.f = updateTaskDto.f, field by field
ApplyPatch(task, dto) ==
    [task EXCEPT
        !.title = IF TruthyText(dto, "title") THEN dto.title ELSE @,
        !.description = IF TruthyText(dto, "description") THEN dto.description ELSE @,
        !.status = IF Has(dto, "status") THEN dto.status ELSE @,
        !.priority = IF Has(dto, "priority") THEN dto.priority ELSE @,
        !.dueDate = IF Has(dto, "dueDate") THEN dto.dueDate ELSE @]

----------------------------------------------------------------------------
(* getStats *)

StatsRows(userId) == {t \in Rows : t.userId = userId}

\* SUM(CASE WHEN ... THEN 1 ELSE 0 END): NULL (NullNum) over no rows
NullNum == -1
SumCase(rows, hit) == IF rows = {} THEN NullNum ELSE Cardinality(rows \cap hit)

\* Number(raw?.x ?? 0)
NumberOr0(x) == IF x = NullNum THEN 0 ELSE x

GetStatsResult_Unscoped(userId) ==
    [total |-> Cardinality(Rows),
     completed |-> NumberOr0(SumCase(Rows, {t \in Rows : t.status = "COMPLETED"})),
     inProgress |-> NumberOr0(SumCase(Rows, {t \in Rows : t.status = "IN_PROGRESS"})),
     pending |-> NumberOr0(SumCase(Rows, {t \in Rows : t.status = "PENDING"})),
     highPriority |-> NumberOr0(SumCase(Rows, {t \in Rows : t.priority = "HIGH"}))]

GetStatsResult(userId) ==
    LET rows == StatsRows(userId)
    IN  [total |-> Cardinality(rows),
         completed |-> NumberOr0(SumCase(rows, {t \in Rows : t.status = "COMPLETED"})),
         inProgress |-> NumberOr0(SumCase(rows, {t \in Rows : t.status = "IN_PROGRESS"})),
         pending |-> NumberOr0(SumCase(rows, {t \in Rows : t.status = "PENDING"})),
         highPriority |-> NumberOr0(SumCase(rows, {t \in Rows : t.priority = "HIGH"}))]

----------------------------------------------------------------------------
(* findAll *)

LowerChar(c) == IF c = "A" THEN "a" ELSE IF c = "B" THEN "b" ELSE c

\* String.prototype.toLowerCase / SQL LOWER
LowerText(s) == [i \in 1..Len(s) |-> LowerChar(s[i])]

\* SQL  text LIKE pattern : % is any run of characters, _ any one character
RECURSIVE Like(_, _)
Like(s, p) ==
    IF p = <<>> THEN s = <<>>
    ELSE IF Head(p) = "%" THEN Like(s, Tail(p)) \/ (s # <<>> /\ Like(Tail(s), p))
    ELSE s # <<>> /\ (Head(p) = "_" \/ Head(p) = Head(s)) /\ Like(Tail(s), Tail(p))

\* `%${filters.search.toLowerCase()}%`
SearchPattern(search) == <<"%">> \o LowerText(search) \o <<"%">>

\* LOWER(task.title) LIKE :q OR LOWER(task.description) LIKE :q ; a NULL
\* description makes its side of the OR NULL, which is not true
SearchHit(t, search) ==
    \/ Like(LowerText(t.title), SearchPattern(search))
    \/ (t.description # NullText /\ Like(LowerText(t.description), SearchPattern(search)))

\* the WHERE clause findAll builds; a comparison with a NULL dueDate is not true
Where(t, userId, f) ==
    /\ t.userId = userId
    /\ (Has(f, "status") => t.status = f.status)
    /\ (Has(f, "priority") => t.priority = f.priority)
    /\ (Has(f, "dueDateFrom") => (t.dueDate # NullDate /\ t.dueDate >= f.dueDateFrom))
    /\ (Has(f, "dueDateTo") => (t.dueDate # NullDate /\ t.dueDate <= f.dueDateTo))
    /\ (TruthyText(f, "search") => SearchHit(t, f.search))

PageOf(f) == IF Has(f, "page") THEN f.page ELSE DefaultPage
LimitOf(f) == IF Has(f, "limit") THEN f.limit ELSE DefaultLimit
SortByOf(f) == IF Has(f, "sortBy") THEN f.sortBy ELSE "createdAt"
SortOrderOf(f) == IF Has(f, "sortOrder") THEN f.sortOrder ELSE "DESC"

\* the store's order of an enum column's values
EnumRank(v) ==
    CASE v = "COMPLETED" -> 1 [] v = "IN_PROGRESS" -> 2 [] v = "OTHER" -> 3
      [] v = "PENDING" -> 4 [] v = "HIGH" -> 1 [] v = "LOW" -> 2 [] v = "MEDIUM" -> 3

\* sortMap[sortBy]: the column a row is ordered by; NULL sorts above every value
SortKey(t, sortBy) ==
    CASE sortBy = "createdAt" -> t.createdAt
      [] sortBy = "dueDate" -> IF t.dueDate = NullDate THEN 1000 ELSE t.dueDate
      [] sortBy = "priority" -> EnumRank(t.priority)
      [] sortBy = "status" -> EnumRank(t.status)

InOrder(a, b, sortBy, sortOrder) ==
    IF sortOrder = "ASC" THEN SortKey(a, sortBy) <= SortKey(b, sortBy)
    ELSE SortKey(a, sortBy) >= SortKey(b, sortBy)

\* every sequence ORDER BY may return for a set of rows (ties in any order)
Orderings(rows, sortBy, sortOrder) ==
    LET n == Cardinality(rows)
    IN  {s \in [1..n -> rows] :
            /\ \A i, j \in 1..n : i < j => s[i] # s[j]
            /\ \A i, j \in 1..n : i < j => InOrder(s[i], s[j], sortBy, sortOrder)}

\* .skip((page - 1) * limit)
SkipOf(f) == (PageOf(f) - 1) * LimitOf(f)

\* .skip(n).take(limit) of an ordered result
SkipTake(ord, skip, limit) == SubSeq(ord, skip + 1, Min(Len(ord), skip + limit))

\* Math.ceil(total / limit)
CeilDiv(a, b) == IF a % b = 0 THEN a \div b ELSE (a \div b) + 1

TotalPages_NoFloor(total, limit) == CeilDiv(total, limit)

\* Math.ceil(total / limit) || 1
TotalPages(total, limit) ==
    IF CeilDiv(total, limit) = 0 THEN 1 ELSE CeilDiv(total, limit)

----------------------------------------------------------------------------
(* Service calls in flight *)

NoDto == [absent |-> TRUE]

\* a call before its first await has resumed
NewCall(op) ==
    [op |-> op, userId |-> "-", id |-> 0, dto |-> NoDto,
     isArray |-> TRUE, taskIds |-> <<>>, action |-> "-",
     pc |-> "start", task |-> NoTask, originalStatus |-> "-",
     saved |-> NoTask, savedAt |-> 0, error |-> "none", affected |-> 0]

\* a read's response is handed back before the next step is looked at
Idle == resp = NoResp

CanStart == Idle /\ Len(calls) < MaxCalls

CallIds == 1..Len(calls)
JobIds == 1..Len(jobs)

\* this.taskQueue.add('task-status-update', { taskId, status })
QueueAdd(c, task) ==
    Append(jobs, [taskId |-> task.id, status |-> task.status, call |-> c, state |-> "pending"])

\* repository.save(entity): writes the in-memory entity's columns over the row
\* with its key, and inserts the row when the table holds none with that key
SaveRow(task) == [store EXCEPT ![task.id] = task]

(* create: lines 20-33 *)

\* await this.tasksRepository.save(task) succeeds
CreateSave(dto) ==
    /\ CanStart
    /\ nextId <= MaxTasks
    /\ LET t == NewTask(dto, nextId)
       IN  /\ store' = SaveRow(t)
           /\ calls' = Append(calls,
                  [NewCall("create") EXCEPT !.dto = dto, !.pc = "notify", !.task = t,
                                            !.saved = t, !.savedAt = tick + 1])
    /\ nextId' = nextId + 1
    /\ tick' = tick + 1
    /\ last' = NoLast
    /\ resp' = NoResp
    /\ UNCHANGED <<jobs, input>>

\* the pc a call goes to when its save rejects: the rejection leaves the call
SaveFailedPc_Continue(op) == "notify"

SaveFailedPc(op) == "done"

\* await this.tasksRepository.save(task) rejects
CreateSaveFail(dto) ==
    /\ CanStart
    /\ calls' = Append(calls,
           [NewCall("create") EXCEPT !.dto = dto, !.pc = SaveFailedPc("create"),
                                     !.task = NewTask(dto, 0),
                                     !.error = "StoreFailure"])
    /\ resp' = NoResp
    /\ UNCHANGED <<store, nextId, jobs, tick, last, input>>

\* the continuation after the save: taskQueue.add(...) not awaited, return savedTask
CreateNotify(c) ==
    /\ Idle
    /\ calls[c].op = "create"
    /\ calls[c].pc = "notify"
    /\ jobs' = QueueAdd(c, calls[c].task)
    /\ calls' = [calls EXCEPT ![c].pc = "done"]
    /\ resp' = NoResp
    /\ UNCHANGED <<store, nextId, tick, last, input>>

(* update: lines 112-137 *)

\* const task = await this.findOne(id, userId); then the patch is applied in memory
UpdateLoad(id, dto, userId) ==
    /\ CanStart
    /\ LET t == FindOneRow(id, userId)
           c == [NewCall("update") EXCEPT !.id = id, !.dto = dto, !.userId = userId]
       IN  calls' = Append(calls,
               IF t = NoTask
               THEN [c EXCEPT !.pc = "done", !.error = "NotFound"]
               ELSE [c EXCEPT !.pc = "save", !.originalStatus = t.status,
                              !.task = ApplyPatch(t, dto)])
    /\ resp' = NoResp
    /\ UNCHANGED <<store, nextId, jobs, tick, last, input>>

\* await this.tasksRepository.save(task) succeeds
UpdateSave(c) ==
    /\ Idle
    /\ calls[c].op = "update"
    /\ calls[c].pc = "save"
    /\ store' = SaveRow(calls[c].task)
    /\ calls' = [calls EXCEPT ![c].pc = "notify", ![c].saved = calls[c].task,
                              ![c].savedAt = tick + 1]
    /\ tick' = tick + 1
    /\ last' = NoLast
    /\ resp' = NoResp
    /\ UNCHANGED <<nextId, jobs, input>>

\* await this.tasksRepository.save(task) rejects
UpdateSaveFail(c) ==
    /\ Idle
    /\ calls[c].op = "update"
    /\ calls[c].pc = "save"
    /\ calls' = [calls EXCEPT ![c].pc = SaveFailedPc("update"), ![c].error = "StoreFailure"]
    /\ resp' = NoResp
    /\ UNCHANGED <<store, nextId, jobs, tick, last, input>>

StatusChanged_Always(originalStatus, updatedStatus) == TRUE

\* originalStatus !== updatedTask.status
StatusChanged(originalStatus, updatedStatus) == originalStatus # updatedStatus

\* the continuation after the save: add to the queue if the status changed, return
UpdateNotify(c) ==
    /\ Idle
    /\ calls[c].op = "update"
    /\ calls[c].pc = "notify"
    /\ jobs' = IF StatusChanged(calls[c].originalStatus, calls[c].task.status)
               THEN QueueAdd(c, calls[c].task)
               ELSE jobs
    /\ calls' = [calls EXCEPT ![c].pc = "done"]
    /\ resp' = NoResp
    /\ UNCHANGED <<store, nextId, tick, last, input>>

(* remove: lines 139-142 *)

\* const task = await this.findOne(id, userId)
RemoveLoad(id, userId) ==
    /\ CanStart
    /\ LET t == FindOneRow(id, userId)
           c == [NewCall("remove") EXCEPT !.id = id, !.userId = userId]
       IN  calls' = Append(calls,
               IF t = NoTask
               THEN [c EXCEPT !.pc = "done", !.error = "NotFound"]
               ELSE [c EXCEPT !.pc = "remove", !.task = t])
    /\ resp' = NoResp
    /\ UNCHANGED <<store, nextId, jobs, tick, last, input>>

RemoveRow_Keeps(task) == store

\* tasksRepository.remove(task): deletes the row with the task's key
RemoveRow(task) == [store EXCEPT ![task.id] = NoTask]

\* await this.tasksRepository.remove(task)
RemoveDelete(c) ==
    /\ Idle
    /\ calls[c].op = "remove"
    /\ calls[c].pc = "remove"
    /\ store' = RemoveRow(calls[c].task)
    /\ calls' = [calls EXCEPT ![c].pc = "done"]
    /\ last' = [op |-> "remove", id |-> calls[c].id, userId |-> calls[c].userId]
    /\ resp' = NoResp
    /\ UNCHANGED <<nextId, jobs, tick, input>>

(* updateStatus: lines 150-158 *)

\* const task = await this.tasksRepository.findOne({ where: { id } })
UpdateStatusLoad(id, status) ==
    /\ CanStart
    /\ LET t == FindById(id)
           c == [NewCall("updateStatus") EXCEPT !.id = id, !.dto = [status |-> status]]
       IN  calls' = Append(calls,
               IF t = NoTask
               THEN [c EXCEPT !.pc = "done", !.error = "NotFound"]
               ELSE [c EXCEPT !.pc = "save", !.task = [t EXCEPT !.status = status]])
    /\ resp' = NoResp
    /\ UNCHANGED <<store, nextId, jobs, tick, last, input>>

\* return this.tasksRepository.save(task)
UpdateStatusSave(c) ==
    /\ Idle
    /\ calls[c].op = "updateStatus"
    /\ calls[c].pc = "save"
    /\ store' = SaveRow(calls[c].task)
    /\ calls' = [calls EXCEPT ![c].pc = "done", ![c].saved = calls[c].task,
                              ![c].savedAt = tick + 1]
    /\ tick' = tick + 1
    /\ last' = NoLast
    /\ resp' = NoResp
    /\ UNCHANGED <<nextId, jobs, input>>

(* batchProcess: lines 160-181 *)

Range(seq) == {seq[i] : i \in 1..Len(seq)}

\* WHERE id IN (taskIds) AND user_id = userId
BatchRows_AnyOwner(userId, taskIds) ==
    {i \in Ids : store[i] # NoTask /\ i \in Range(taskIds)}

BatchRows(userId, taskIds) ==
    {i \in Ids : store[i] # NoTask /\ store[i].userId = userId /\ i \in Range(taskIds)}

\* one set-based DELETE or UPDATE; result.affected ?? 0
BatchProcess(userId, body, action) ==
    /\ CanStart
    /\ LET c == [NewCall("batchProcess") EXCEPT !.userId = userId, !.isArray = body.isArray,
                     !.taskIds = body.taskIds, !.action = action, !.pc = "done"]
           hit == BatchRows(userId, body.taskIds)
       IN  IF ~body.isArray \/ Len(body.taskIds) = 0
           THEN /\ calls' = Append(calls, [c EXCEPT !.affected = 0])
                /\ UNCHANGED <<store, last>>
           ELSE IF action = "delete"
           THEN /\ store' = [i \in Ids |-> IF i \in hit THEN NoTask ELSE store[i]]
                /\ calls' = Append(calls, [c EXCEPT !.affected = Cardinality(hit)])
                /\ last' = [op |-> "batchDelete", userId |-> userId,
                            taskIds |-> body.taskIds, affected |-> Cardinality(hit)]
           ELSE IF action = "complete"
           THEN /\ store' = [i \in Ids |-> IF i \in hit
                                           THEN [store[i] EXCEPT !.status = "COMPLETED"]
                                           ELSE store[i]]
                /\ calls' = Append(calls, [c EXCEPT !.affected = Cardinality(hit)])
                /\ last' = NoLast
           ELSE /\ calls' = Append(calls, [c EXCEPT !.affected = 0])
                /\ UNCHANGED <<store, last>>
    /\ resp' = NoResp
    /\ UNCHANGED <<nextId, jobs, tick, input>>

(* the queue: what becomes of a taskQueue.add whose promise nobody awaits *)

JobAccepted(j) ==
    /\ Idle
    /\ jobs[j].state = "pending"
    /\ jobs' = [jobs EXCEPT ![j].state = "queued"]
    /\ resp' = NoResp
    /\ UNCHANGED <<store, nextId, calls, tick, last, input>>

\* the add rejects: nothing holds the promise, so no call sees the rejection
JobRejected_Propagates(j) ==
    /\ Idle
    /\ jobs[j].state = "pending"
    /\ jobs' = [jobs EXCEPT ![j].state = "failed"]
    /\ calls' = [calls EXCEPT ![jobs[j].call].error = "QueueFailure"]
    /\ resp' = NoResp
    /\ UNCHANGED <<store, nextId, tick, last, input>>

JobRejected(j) ==
    /\ Idle
    /\ jobs[j].state = "pending"
    /\ jobs' = [jobs EXCEPT ![j].state = "failed"]
    /\ resp' = NoResp
    /\ UNCHANGED <<store, nextId, calls, tick, last, input>>

(* read-only calls: one store round-trip each *)

\* findOne: lines 99-110
FindOne(id, userId) ==
    /\ Idle
    /\ LET t == FindOneRow(id, userId)
       IN  resp' = [op |-> "findOne", id |-> id, userId |-> userId,
                    error |-> IF t = NoTask THEN "NotFound" ELSE "none", task |-> t]
    /\ UNCHANGED <<store, nextId, calls, jobs, tick, last, input>>

\* getStats: lines 183-206
GetStats(userId) ==
    /\ Idle
    /\ resp' = [op |-> "getStats", userId |-> userId, stats |-> GetStatsResult(userId)]
    /\ UNCHANGED <<store, nextId, calls, jobs, tick, last, input>>

\* findAll: lines 35-97
FindAll(userId, f) ==
    /\ Idle
    /\ LET rows == {t \in Rows : Where(t, userId, f)}
           total == Cardinality(rows)
       IN  \E ord \in Orderings(rows, SortByOf(f), SortOrderOf(f)) :
              resp' = [op |-> "findAll", userId |-> userId, filters |-> f,
                       data |-> SkipTake(ord, SkipOf(f), LimitOf(f)),
                       total |-> total, page |-> PageOf(f), limit |-> LimitOf(f),
                       totalPages |-> TotalPages(total, LimitOf(f))]
    /\ UNCHANGED <<store, nextId, calls, jobs, tick, last, input>>

\* the controller returns the service's result to the client
Respond ==
    /\ resp # NoResp
    /\ resp' = NoResp
    /\ UNCHANGED <<store, nextId, calls, jobs, tick, last, input>>

----------------------------------------------------------------------------
(* The service under concurrent requests *)

Title1 == <<"A">>
Title2 == <<"b">>

CreateDtos ==
    {[userId |-> u, title |-> Title1] : u \in Users}
    \cup {[userId |-> u, title |-> Title1, status |-> s] :
             u \in Users, s \in {"PENDING", "IN_PROGRESS"}}
    \cup {[userId |-> u, title |-> Title1, priority |-> "HIGH"] : u \in Users}

UpdateDtos ==
    {[title |-> Title2], [status |-> "COMPLETED"], [status |-> "PENDING"],
     [priority |-> "HIGH", dueDate |-> 2], [title |-> <<>>, description |-> Title2]}

BatchBodies ==
    {[isArray |-> FALSE, taskIds |-> <<>>]}
    \cup {[isArray |-> TRUE, taskIds |-> l] :
             l \in {<<>>, <<1>>, <<2, 3>>, <<1, 2, 3>>, <<3, 1, 3>>}}

BatchActions == {"complete", "delete", "archive"}

MainFilters ==
    {[page |-> 1], [limit |-> 1, page |-> 2], [status |-> "PENDING", sortBy |-> "status"],
     [search |-> <<"a">>, sortOrder |-> "ASC"]}

SeedOwner(i) == IF i % 3 = 0 THEN "U2" ELSE "U1"
SeedTask(i) == NewTask([userId |-> SeedOwner(i), title |-> Title1], i)

Init ==
    /\ \E n \in 0..MaxSeed :
          /\ store = [i \in Ids |-> IF i <= n THEN SeedTask(i) ELSE NoTask]
          /\ nextId = n + 1
    /\ calls = <<>>
    /\ jobs = <<>>
    /\ tick = 0
    /\ last = NoLast
    /\ resp = NoResp
    /\ input = NoInput

Next ==
    \/ \E dto \in CreateDtos : CreateSave(dto)
    \/ \E dto \in CreateDtos : CreateSaveFail(dto)
    \/ \E c \in CallIds : CreateNotify(c)
    \/ \E id \in Ids, dto \in UpdateDtos, u \in Users : UpdateLoad(id, dto, u)
    \/ \E c \in CallIds : UpdateSave(c)
    \/ \E c \in CallIds : UpdateSaveFail(c)
    \/ \E c \in CallIds : UpdateNotify(c)
    \/ \E id \in Ids, u \in Users : RemoveLoad(id, u)
    \/ \E c \in CallIds : RemoveDelete(c)
    \/ \E id \in Ids, s \in AnyStatus : UpdateStatusLoad(id, s)
    \/ \E c \in CallIds : UpdateStatusSave(c)
    \/ \E u \in Users, b \in BatchBodies, a \in BatchActions : BatchProcess(u, b, a)
    \/ \E j \in JobIds : JobAccepted(j)
    \/ \E j \in JobIds : JobRejected(j)
    \/ \E id \in Ids, u \in Users : FindOne(id, u)
    \/ \E u \in Users : GetStats(u)
    \/ \E u \in Users, f \in MainFilters : FindAll(u, f)
    \/ Respond

Spec == Init /\ [][Next]_vars

----------------------------------------------------------------------------
(* What the claims read *)

Exists(i) == store[i] # NoTask
JobsOf(c) == {j \in JobIds : jobs[j].call = c}
Listed(i, taskIds) == \E k \in 1..Len(taskIds) : taskIds[k] = i

\* the step starts a call: the call is the last of calls'
Starts(op) == Len(calls') = Len(calls) + 1 /\ calls'[Len(calls')].op = op
Started == calls'[Len(calls')]

\* the calls that take the step
Stepping == {c \in 1..Len(calls') : c > Len(calls) \/ calls'[c] # calls[c]}

----------------------------------------------------------------------------
\* C1: a requester who does not own a task cannot read it (findOne is NotFound,
\* findAll leaves it out), cannot change or delete it (update and remove end
\* NotFound, batchProcess passes it over and does not count it), and no step
\* taken on behalf of another user changes it in the store.
C1_ReadsScoped ==
    /\ (resp.op = "findOne" /\ Exists(resp.id) /\ store[resp.id].userId # resp.userId)
          => resp.error = "NotFound"
    /\ resp.op = "findAll" => \A k \in 1..Len(resp.data) : resp.data[k].userId = resp.userId

C1_WritesScoped ==
    /\ \A i \in Ids :
          (Exists(i) /\ store'[i] # store[i]) =>
              \E c \in Stepping :
                  calls'[c].op = "updateStatus" \/ calls'[c].userId = store[i].userId
    /\ (Starts("update") \/ Starts("remove")) =>
          ((Exists(Started.id) /\ store[Started.id].userId # Started.userId)
              => (Started.error = "NotFound" /\ Started.pc = "done" /\ store' = store))
    /\ Starts("batchProcess") =>
          Started.affected <=
              Cardinality({i \in Ids : Exists(i) /\ store[i].userId = Started.userId
                                        /\ Listed(i, Started.taskIds)})

\* C1: in every state the reads are scoped to the requester, and every step
\* leaves the tasks of other users as they were.
C1_OwnershipScoping == [](C1_ReadsScoped) /\ [][C1_WritesScoped]_vars

\* a non-owner's update of an existing task ended NotFound, then the same
\* non-owner batch-deleted a list holding it, and the task is as it was seeded
C1_Witness ==
    /\ Len(calls) = 2
    /\ calls[1].op = "update" /\ calls[1].id = 1 /\ calls[1].userId = "U2"
    /\ calls[1].error = "NotFound"
    /\ calls[2].op = "batchProcess" /\ calls[2].userId = "U2" /\ calls[2].action = "delete"
    /\ Listed(1, calls[2].taskIds) /\ calls[2].affected = 0
    /\ store[1] = SeedTask(1)

----------------------------------------------------------------------------
\* C2: a create call that returned has made exactly one taskQueue.add, for the
\* task it saved and with its status; an update call that returned has made
\* exactly one when the status it saved differs from the status it loaded, and
\* none when the two are equal. (An add is counted when it is made; whether the
\* queue then accepts the job is the queue's outcome.)
C2_NotifyOncePerStatusChange ==
    \A c \in CallIds :
        /\ Cardinality(JobsOf(c)) <= 1
        /\ \A j \in JobsOf(c) :
              jobs[j].taskId = calls[c].saved.id /\ jobs[j].status = calls[c].saved.status
        /\ (calls[c].pc = "done" /\ calls[c].error = "none" /\ calls[c].op = "create")
              => Cardinality(JobsOf(c)) = 1
        /\ (calls[c].pc = "done" /\ calls[c].error = "none" /\ calls[c].op = "update")
              => Cardinality(JobsOf(c)) =
                    (IF calls[c].saved.status # calls[c].originalStatus THEN 1 ELSE 0)

\* one update that changed the status and made one add, one that kept it and made none
C2_Witness ==
    /\ Len(calls) = 2
    /\ \A c \in {1, 2} : calls[c].op = "update" /\ calls[c].pc = "done" /\ calls[c].error = "none"
    /\ calls[1].saved.status # calls[1].originalStatus /\ Cardinality(JobsOf(1)) = 1
    /\ calls[2].saved.status = calls[2].originalStatus /\ Cardinality(JobsOf(2)) = 0

----------------------------------------------------------------------------
\* C3: once the save of a create or update has succeeded the call returns the
\* saved task without an error, whatever becomes of its taskQueue.add, and the
\* step in which the add fails changes neither the store nor any call.
C3_SavedCallReturns ==
    \A c \in CallIds :
        (calls[c].op \in {"create", "update"} /\ calls[c].saved # NoTask) =>
            /\ calls[c].error = "none"
            /\ calls[c].saved = calls[c].task
            /\ calls[c].pc \in {"notify", "done"}

C3_FailureChangesNothing ==
    (\E j \in JobIds : jobs[j].state = "pending" /\ jobs'[j].state = "failed")
        => (store' = store /\ calls' = calls)

\* C3: a saved create or update always returns its saved task, and a failing
\* add changes neither the store nor a call.
C3_QueueFailureSwallowed == [](C3_SavedCallReturns) /\ [][C3_FailureChangesNothing]_vars

\* the add of an update failed; the call returned and the store holds what it saved
C3_Witness ==
    \E j \in JobIds :
        /\ jobs[j].state = "failed"
        /\ calls[jobs[j].call].op = "update"
        /\ calls[jobs[j].call].pc = "done" /\ calls[jobs[j].call].error = "none"
        /\ store[jobs[j].taskId] = calls[jobs[j].call].saved

----------------------------------------------------------------------------
\* C4: batchProcess(userId, taskIds, complete) sets COMPLETED on exactly the
\* existing tasks that are listed and owned by userId, returns their number, and
\* leaves every other row as it was; an empty or non-array list, or an action
\* that is neither complete nor delete, changes nothing and returns 0.
C4_BatchStep ==
    Starts("batchProcess") =>
        LET c == Started
            mine(i) == Exists(i) /\ store[i].userId = c.userId /\ Listed(i, c.taskIds)
        IN  /\ (c.isArray /\ Len(c.taskIds) > 0 /\ c.action = "complete") =>
                  /\ \A i \in Ids :
                        store'[i] = IF mine(i) THEN [store[i] EXCEPT !.status = "COMPLETED"]
                                    ELSE store[i]
                  /\ c.affected = Cardinality({i \in Ids : mine(i)})
            /\ (~c.isArray \/ Len(c.taskIds) = 0 \/ c.action \notin {"complete", "delete"}) =>
                  (store' = store /\ c.affected = 0)
            /\ c.pc = "done" /\ c.error = "none"

\* C4: every batchProcess step has the effect and the count stated above.
C4_BatchComplete == [][C4_BatchStep]_vars

\* t1, t2 of U1 and t3 of U2: batchProcess(U1, [t1, t2, t3], complete) returned 2
C4_Witness ==
    /\ Len(calls) = 1
    /\ calls[1].op = "batchProcess" /\ calls[1].userId = "U1" /\ calls[1].action = "complete"
    /\ calls[1].taskIds = <<1, 2, 3>> /\ calls[1].affected = 2
    /\ store[1].status = "COMPLETED" /\ store[2].status = "COMPLETED"
    /\ store[3] = SeedTask(3) /\ store[3].userId = "U2"

----------------------------------------------------------------------------
\* C5: a remove of the id a remove has just deleted (nothing having touched the
\* store in between) ends NotFound; a batch delete returns the number of listed
\* tasks of the user that exist, and 0 when it repeats the batch delete that
\* came just before it.
C5_DeleteStep ==
    /\ (Starts("remove") /\ last.op = "remove"
            /\ last.id = Started.id /\ last.userId = Started.userId)
          => (Started.error = "NotFound" /\ Started.pc = "done")
    /\ (Starts("batchProcess") /\ Started.action = "delete"
            /\ Started.isArray /\ Len(Started.taskIds) > 0)
          => /\ Started.affected =
                    Cardinality({i \in Ids : Exists(i) /\ store[i].userId = Started.userId
                                              /\ Listed(i, Started.taskIds)})
             /\ \A i \in Ids : Listed(i, Started.taskIds) =>
                    (store'[i] = NoTask \/ store'[i].userId # Started.userId)
             /\ (last.op = "batchDelete" /\ last.userId = Started.userId
                    /\ last.taskIds = Started.taskIds) => Started.affected = 0

\* C5: every remove and every batch delete that repeats the deletion just before
\* it finds nothing left to delete.
C5_DeleteIdempotent == [][C5_DeleteStep]_vars

\* remove(1, U1) succeeded and the remove(1, U1) after it ended NotFound
C5_Witness ==
    /\ Len(calls) = 2
    /\ \A c \in {1, 2} : calls[c].op = "remove" /\ calls[c].id = 1 /\ calls[c].userId = "U1"
    /\ calls[1].pc = "done" /\ calls[1].error = "none"
    /\ calls[2].pc = "done" /\ calls[2].error = "NotFound"
    /\ last.op = "remove"

----------------------------------------------------------------------------
\* C8: getStats(userId) returns the number of the user's tasks as total, the
\* numbers of those that are COMPLETED, IN_PROGRESS and PENDING, and the number
\* with priority HIGH; all are >= 0, the three status counts sum to at most
\* total, a user without tasks gets zeros, and a user whose only task is
\* PENDING and not HIGH gets {total 1, pending 1, 0, 0, 0}.
Owned(u) == {i \in Ids : Exists(i) /\ store[i].userId = u}

C8_StatsCounts ==
    resp.op = "getStats" =>
        LET st == resp.stats
            own == Owned(resp.userId)
        IN  /\ st.total = Cardinality(own)
            /\ st.completed = Cardinality({i \in own : store[i].status = "COMPLETED"})
            /\ st.inProgress = Cardinality({i \in own : store[i].status = "IN_PROGRESS"})
            /\ st.pending = Cardinality({i \in own : store[i].status = "PENDING"})
            /\ st.highPriority = Cardinality({i \in own : store[i].priority = "HIGH"})
            /\ st.completed >= 0 /\ st.inProgress >= 0 /\ st.pending >= 0
            /\ st.highPriority >= 0
            /\ st.completed + st.inProgress + st.pending <= st.total
            /\ own = {} =>
                  st = [total |-> 0, completed |-> 0, inProgress |-> 0, pending |-> 0,
                        highPriority |-> 0]
            /\ (\E i \in Ids : own = {i} /\ store[i].status = "PENDING"
                               /\ store[i].priority # "HIGH") =>
                  st = [total |-> 1, completed |-> 0, inProgress |-> 0, pending |-> 1,
                        highPriority |-> 0]

\* U1's first task was created PENDING, and U1's stats were read after it
C8_Witness ==
    /\ Len(calls) = 1 /\ calls[1].op = "create" /\ calls[1].pc = "done"
    /\ calls[1].dto = [userId |-> "U1", title |-> Title1, status |-> "PENDING"]
    /\ calls[1].saved.id = 1
    /\ resp.op = "getStats" /\ resp.userId = "U1"
    /\ resp.stats = [total |-> 1, completed |-> 0, inProgress |-> 0, pending |-> 1,
                     highPriority |-> 0]

----------------------------------------------------------------------------
\* C9: every taskQueue.add was made by a call whose save had already completed,
\* for the task that save wrote and with the status it wrote; a call whose save
\* failed or whose lookup ended NotFound has made no add.
C9_SaveBeforeNotify ==
    /\ \A j \in JobIds :
          LET c == calls[jobs[j].call]
          IN  /\ c.saved # NoTask
              /\ c.savedAt >= 1 /\ c.savedAt <= tick
              /\ c.saved.id = jobs[j].taskId
              /\ c.saved.status = jobs[j].status
    /\ \A c \in CallIds : calls[c].error # "none" => JobsOf(c) = {}

\* a queued event of a saved update beside a call whose save failed and made no add
C9_Witness ==
    /\ Len(calls) = 2
    /\ calls[1].op = "update" /\ calls[1].pc = "done" /\ calls[1].error = "StoreFailure"
    /\ JobsOf(1) = {}
    /\ calls[2].op = "update" /\ calls[2].pc = "done"
    /\ \E j \in JobsOf(2) : jobs[j].state = "queued" /\ store[jobs[j].taskId].status = jobs[j].status

----------------------------------------------------------------------------
\* C10: when two updates of one task by its owner have both returned, each
\* field that a patch set holds the value of the patch saved last among those
\* that set it (so a field only one patch set holds that patch's value).
Fields == {"title", "description", "status", "priority", "dueDate"}

Sets(dto, f) == IF f \in {"title", "description"} THEN TruthyText(dto, f) ELSE Has(dto, f)

C10_LastWriteWinsPerField ==
    (/\ Len(calls) = 2
     /\ \A c \in {1, 2} : calls[c].op = "update" /\ calls[c].pc = "done"
                          /\ calls[c].error = "none"
     /\ calls[1].id = calls[2].id)
    => \A f \in Fields :
          LET writers == {c \in {1, 2} : Sets(calls[c].dto, f)}
          IN  writers # {} =>
                 LET w == CHOOSE c \in writers :
                              \A d \in writers : calls[d].savedAt <= calls[c].savedAt
                 IN  store[calls[1].id][f] = calls[w].dto[f]

----------------------------------------------------------------------------
(* findAll over a table of varied rows *)

\* the query objects the controller passes on: each filter present or absent
NoFilter == [f \in {} |-> 0]
Opt(name, values) == {NoFilter} \cup {name :> v : v \in values}

\* every combination of the row filters under the default paging, and every
\* paging and sorting over a filtered and an unfiltered listing
ListFilters ==
    {a @@ b @@ c @@ d @@ e :
        a \in Opt("status", {"PENDING"}),
        b \in Opt("priority", {"HIGH"}),
        c \in Opt("search", {<<"A">>, <<"_">>, <<>>}),
        d \in Opt("dueDateFrom", {2}),
        e \in Opt("dueDateTo", {2})}
    \cup
    {a @@ c @@ g @@ h @@ k @@ m :
        a \in Opt("status", {"PENDING"}),
        c \in Opt("search", {<<"_">>}),
        g \in Opt("page", {1, 2, 3}),
        h \in Opt("limit", {1, 2, 100}),
        k \in Opt("sortBy", {"createdAt", "dueDate", "priority", "status"}),
        m \in Opt("sortOrder", {"ASC", "DESC"})}

\* the rows a table slot may hold
ListRow(i, k) ==
    CASE k = 1 -> [id |-> i, userId |-> "U1", title |-> <<"A", "b">>, description |-> NullText,
                   status |-> "PENDING", priority |-> "HIGH", dueDate |-> 1, createdAt |-> 1]
      [] k = 2 -> [id |-> i, userId |-> "U1", title |-> <<"b">>, description |-> <<"a">>,
                   status |-> "PENDING", priority |-> "LOW", dueDate |-> NullDate, createdAt |-> 1]
      [] k = 3 -> [id |-> i, userId |-> "U1", title |-> <<"b">>, description |-> NullText,
                   status |-> "COMPLETED", priority |-> "HIGH", dueDate |-> 2, createdAt |-> 2]
      [] k = 4 -> [id |-> i, userId |-> "U2", title |-> <<"A">>, description |-> NullText,
                   status |-> "PENDING", priority |-> "HIGH", dueDate |-> 3, createdAt |-> 3]
      [] OTHER -> NoTask

RowKinds == 0..4

InitList ==
    /\ \E kinds \in [Ids -> RowKinds] : store = [i \in Ids |-> ListRow(i, kinds[i])]
    /\ nextId = MaxTasks + 1
    /\ calls = <<>>
    /\ jobs = <<>>
    /\ tick = 0
    /\ last = NoLast
    /\ resp = NoResp
    /\ input = NoInput

NextList ==
    \/ \E u \in Users, f \in ListFilters : FindAll(u, f)
    \/ Respond

SpecList == InitList /\ [][NextList]_vars

\* text contains sub as a run of consecutive characters
Contains(text, sub) ==
    \E i \in 0..(Len(text) - Len(sub)) : SubSeq(text, i + 1, i + Len(sub)) = sub

\* the filters as the listing contract states them: exact status and priority,
\* inclusive dueDate bounds, search a case-insensitive substring of title or description
Matches(t, userId, f) ==
    /\ t.userId = userId
    /\ (Has(f, "status") => t.status = f.status)
    /\ (Has(f, "priority") => t.priority = f.priority)
    /\ (Has(f, "dueDateFrom") => (t.dueDate # NullDate /\ t.dueDate >= f.dueDateFrom))
    /\ (Has(f, "dueDateTo") => (t.dueDate # NullDate /\ t.dueDate <= f.dueDateTo))
    /\ (Has(f, "search") =>
          \/ Contains(LowerText(t.title), LowerText(f.search))
          \/ (t.description # NullText
                /\ Contains(LowerText(t.description), LowerText(f.search))))

Before(a, b, sortBy, sortOrder) == ~InOrder(b, a, sortBy, sortOrder)

\* data is the slice at offset (page-1)*limit, of length at most limit, of an
\* ordering by the sort column of the row set M, and total is the size of M
IsPageOf(M, r) ==
    LET f == r.filters
        page == IF Has(f, "page") THEN f.page ELSE 1
        limit == IF Has(f, "limit") THEN f.limit ELSE 10
        sortBy == IF Has(f, "sortBy") THEN f.sortBy ELSE "createdAt"
        sortOrder == IF Has(f, "sortOrder") THEN f.sortOrder ELSE "DESC"
        offset == (page - 1) * limit
        n == Len(r.data)
    IN  /\ n <= limit
        /\ r.total = Cardinality(M)
        /\ n = Min(limit, Max(0, r.total - offset))
        /\ \A k \in 1..n : r.data[k] \in M
        /\ \A k, l \in 1..n : k < l =>
              (r.data[k] # r.data[l] /\ InOrder(r.data[k], r.data[l], sortBy, sortOrder))
        /\ \A k \in 1..n :
              /\ Cardinality({m \in M : Before(m, r.data[k], sortBy, sortOrder)}) <= offset + k - 1
              /\ Cardinality({m \in M : InOrder(m, r.data[k], sortBy, sortOrder)}) >= offset + k

\* C6: findAll returns at most limit rows, exactly those at positions
\* (page-1)*limit onward of the user's tasks that match every present filter, in
\* the order of the sort column, and total counts all the matching tasks.
C6_PageOfMatchingRows ==
    resp.op = "findAll" =>
        IsPageOf({t \in Rows : Matches(t, resp.userId, resp.filters)}, resp)

\* the same with the search filter read as the LIKE pattern the query passes
C6_PageOfSelectedRows ==
    resp.op = "findAll" =>
        IsPageOf({t \in Rows : Where(t, resp.userId, resp.filters)}, resp)

----------------------------------------------------------------------------
(* totalPages over the totals and limits a listing can have *)

InitPages ==
    /\ input \in [total : 0..MaxTotal, limit : 1..MaxLimit]
    /\ store = [i \in Ids |-> NoTask]
    /\ nextId = 1
    /\ calls = <<>>
    /\ jobs = <<>>
    /\ tick = 0
    /\ last = NoLast
    /\ resp = NoResp

\* the totalPages field of findAll's result for a count and a limit
ComputeTotalPages ==
    /\ Idle
    /\ input.limit >= 1
    /\ resp' = [op |-> "totalPages", total |-> input.total, limit |-> input.limit,
                totalPages |-> TotalPages(input.total, input.limit)]
    /\ UNCHANGED <<store, nextId, calls, jobs, tick, last, input>>

NextPages == ComputeTotalPages

SpecPages == InitPages /\ [][NextPages]_vars

\* C7: totalPages is max(1, ceil(total/limit)): the least n >= 1 with
\* n * limit >= total; it is 1 when nothing matches.
C7_TotalPages ==
    resp.op \in {"totalPages", "findAll"} =>
        /\ resp.totalPages >= 1
        /\ resp.totalPages * resp.limit >= resp.total
        /\ (resp.totalPages > 1 => (resp.totalPages - 1) * resp.limit < resp.total)
        /\ (resp.total = 0 => resp.totalPages = 1)

\* no row matches and one page is reported
C7_Witness ==
    resp.op = "totalPages" /\ resp.total = 0 /\ resp.limit = 100 /\ resp.totalPages = 1

====
